---- MODULE Spec2Model ----
(***************************************************************************)
(* gochat: the room Hub (Hub.Run, broadcastToAll, broadcastPresenceUpdate, *)
(* ShutdownHub, StartCleanupRoutine), the hub Manager (GetHubForRoom,      *)
(* cleanupUnusedHubs), the Client (NewClient, ReadPump, WritePump,         *)
(* SendRecentMessages), the HandleWebSocket handler and the active_sessions*)
(* and messages tables, as one state machine.  Goroutines interleave; a    *)
(* channel operation is one step; a panic in any goroutine ends the        *)
(* process (crashed).                                                      *)
(***************************************************************************)
EXTENDS Integers, Sequences, FiniteSets, TLC

\* ---- bounds of the model ----
MaxHubs == 2        \* Hub instances NewHub may create in one run
MaxFrames == 1      \* text frames read by all ReadPumps together
QueueCap == 2       \* capacity of Client.send (256 in the program), scaled
InitStored == 1     \* rows of the messages table at start
MaxFramesOrder == 2  \* text frames read where the order of delivery is checked

\* ---- program constants ----
HistoryLimit == 10  \* LoadRecentMessages(ctx, c.roomID, 10)

\* Connections that arrive, each at most once, and the user of each:
\* user "A" opens two connections to the room, user "B" one.
Sessions == {"s1", "s2", "s3"}
username == [s \in Sessions |-> IF s = "s3" THEN "B" ELSE "A"]
\* The connections of one run: s1 and one more, of the same user or not.
Arrivals == {{"s1", "s2"}, {"s1", "s3"}}
Rooms == {"general"}
roomOf == [s \in Sessions |-> "general"]
HubIds == 1..MaxHubs

VARIABLES
  \* Manager
  hubs,         \* Manager.hubs: a map, room -> hub id (DOMAIN = the keys)
  mutex,        \* Manager.mutex: "free", "sweep" or the session holding it
  nhubs,        \* hubs created so far by NewHub
  sweep,        \* cleanupUnusedHubs: "tick", "shutdown"
  sweepRoom,    \* the room the loop is at
  deleted,      \* how often delete(m.hubs, roomID) has run
  \* Hub, by hub id
  hubRoom,      \* Hub.roomID
  run,          \* Hub.Run: "none","select","recv","presence","fanout","stopped"
  ev,           \* what Run received: [kind, client, payload]
  clients,      \* Hub.clients
  onlineUsers,  \* Hub.onlineUsers
  idle,         \* time.Since(Hub.lastActivity) > 30 minutes
  cleanup,      \* StartCleanupRoutine: "none","tick","shutdown","done"
  stoppedBy,    \* who sent the shutdown Run received: "none","timer","sweep"
  \* Client / HandleWebSocket, by session
  pc,           \* HandleWebSocket, then ReadPump: "absent", "start",
                \* "lookup", "create", "newclient", "register", "failed"; "read", "publish",
                \* "unregister", "done"
  hub,          \* Client.hub (0: none yet)
  epoch,        \* the value of deleted when GetHubForRoom returned hub
  send,         \* Client.send: the buffered payloads
  closed,       \* Client.send is closed
  wp,           \* WritePump: "none","run","done" (returned on a write
                \* error),"closed" (returned after the close frame)
  hist,         \* SendRecentMessages: "none","start","send","done"
  histLeft,     \* history messages still to enqueue
  frame,        \* the text ReadPump read last
  \* database
  rows,         \* active_sessions: sessions that have a row
  stale,        \* rows whose last_seen is older than 5 minutes
  stored,       \* number of rows of the messages table
  \* process
  nframes,      \* frames read so far
  crashed       \* a goroutine panicked

mgrVars == <<hubs, mutex, nhubs, sweep, sweepRoom, deleted>>
hubVars == <<hubRoom, run, ev, clients, onlineUsers, idle, cleanup, stoppedBy>>
cliVars == <<pc, hub, epoch, send, closed, wp, hist, histLeft, frame>>
dbVars == <<rows, stale, stored>>
vars == <<mgrVars, hubVars, cliVars, dbVars, nframes, crashed>>

\* ---- payloads (models.WebSocketMessage) ----
NoPayload == [type |-> "none", sender |-> "", text |-> 0, active |-> {}]
ChatMessage(s, t) ==
  [type |-> "message", sender |-> username[s], text |-> t, active |-> {}]
HistoryMessage(i) ==
  [type |-> "message", sender |-> "system", text |-> i, active |-> {}]
\* ActiveUsers holds one entry per active_sessions row of the room (DISTINCT
\* is over user and the row's timestamps); UserCount is its length.
PresenceUpdate(rs) ==
  [type |-> "presence_update", sender |-> "", text |-> 0, active |-> rs]
UserCount(p) == Cardinality(p.active)
ListedUsers(p) == {username[s] : s \in p.active}

\* Client.conn is closed by HandleWebSocket when NewClient fails, by
\* WritePump's deferred function and at the end of ReadPump's.
ConnOpen(s) == wp[s] \notin {"done", "closed"} /\ pc[s] \notin {"failed", "done"}

NoEvent == [kind |-> "none", client |-> "", payload |-> NoPayload]

Min(a, b) == IF a < b THEN a ELSE b

\* LoadRecentMessages: the newest `limit` rows, reversed to oldest first.
LoadRecentMessages(limit) ==
  LET k == Min(stored, limit)
  IN [i \in 1..k |-> stored - k + i]

Init ==
  /\ hubs = <<>>
  /\ mutex = "free"
  /\ nhubs = 0
  /\ sweep = "tick"
  /\ sweepRoom = ""
  /\ deleted = 0
  /\ hubRoom = [h \in HubIds |-> ""]
  /\ run = [h \in HubIds |-> "none"]
  /\ ev = [h \in HubIds |-> NoEvent]
  /\ clients = [h \in HubIds |-> {}]
  /\ onlineUsers = [h \in HubIds |-> {}]
  /\ idle = [h \in HubIds |-> FALSE]
  /\ cleanup = [h \in HubIds |-> "none"]
  /\ stoppedBy = [h \in HubIds |-> "none"]
  /\ \E a \in Arrivals :
       pc = [s \in Sessions |-> IF s \in a THEN "start" ELSE "absent"]
  /\ hub = [s \in Sessions |-> 0]
  /\ epoch = [s \in Sessions |-> 0]
  /\ send = [s \in Sessions |-> <<>>]
  /\ closed = [s \in Sessions |-> FALSE]
  /\ wp = [s \in Sessions |-> "none"]
  /\ hist = [s \in Sessions |-> "none"]
  /\ histLeft = [s \in Sessions |-> <<>>]
  /\ frame = [s \in Sessions |-> 0]
  /\ rows = {}
  /\ stale = {}
  /\ stored = InitStored
  /\ nframes = 0
  /\ crashed = FALSE

\* ======================= Manager.GetHubForRoom =========================
\* GetHubForRoom entered without waiting for the mutex.
GetHubLockNotExclusive(s) ==
  /\ ~crashed
  /\ pc[s] = "start"
  /\ nhubs = 0
  /\ mutex' = s
  /\ pc' = [pc EXCEPT ![s] = "lookup"]
  /\ UNCHANGED <<hubs, nhubs, sweep, sweepRoom, deleted, hubVars, hub, epoch,
                 send, closed, wp, hist, histLeft, frame, dbVars, nframes,
                 crashed>>

\* m.mutex.Lock() (a call starts only while the model can still create the
\* Hub it may need)
GetHubLock(s) ==
  /\ ~crashed
  /\ pc[s] = "start"
  /\ mutex = "free"
  /\ roomOf[s] \in DOMAIN hubs \/ nhubs < MaxHubs
  /\ mutex' = s
  /\ pc' = [pc EXCEPT ![s] = "lookup"]
  /\ UNCHANGED <<hubs, nhubs, sweep, sweepRoom, deleted, hubVars, hub, epoch,
                 send, closed, wp, hist, histLeft, frame, dbVars, nframes,
                 crashed>>

\* hub, exists := m.hubs[roomID]; if it exists: the deferred
\* m.mutex.Unlock() and return hub
GetHubLookup(s) ==
  /\ ~crashed
  /\ pc[s] = "lookup"
  /\ IF roomOf[s] \in DOMAIN hubs
       THEN /\ hub' = [hub EXCEPT ![s] = hubs[roomOf[s]]]
            /\ epoch' = [epoch EXCEPT ![s] = deleted]
            /\ mutex' = IF mutex = s THEN "free" ELSE mutex
            /\ pc' = [pc EXCEPT ![s] = "newclient"]
       ELSE /\ pc' = [pc EXCEPT ![s] = "create"]
            /\ UNCHANGED <<hub, epoch, mutex>>
  /\ UNCHANGED <<hubs, nhubs, sweep, sweepRoom, deleted, hubVars, send,
                 closed, wp, hist, histLeft, frame, dbVars, nframes, crashed>>

\* hub = NewHub(roomID, m.db); m.hubs[roomID] = hub; go hub.Run();
\* go hub.StartCleanupRoutine(); the deferred m.mutex.Unlock(); return hub
GetHubCreate(s) ==
  /\ ~crashed
  /\ pc[s] = "create"
  /\ nhubs < MaxHubs
  /\ LET h == nhubs + 1 IN
       /\ nhubs' = h
       /\ hubs' = [r \in DOMAIN hubs \cup {roomOf[s]} |->
                     IF r = roomOf[s] THEN h ELSE hubs[r]]
       /\ hubRoom' = [hubRoom EXCEPT ![h] = roomOf[s]]
       /\ run' = [run EXCEPT ![h] = "select"]
       /\ cleanup' = [cleanup EXCEPT ![h] = "tick"]
       /\ idle' = [idle EXCEPT ![h] = FALSE]
       /\ hub' = [hub EXCEPT ![s] = h]
  /\ epoch' = [epoch EXCEPT ![s] = deleted]
  /\ mutex' = IF mutex = s THEN "free" ELSE mutex
  /\ pc' = [pc EXCEPT ![s] = "newclient"]
  /\ UNCHANGED <<sweep, sweepRoom, deleted, ev, clients, onlineUsers,
                 stoppedBy, send, closed, wp, hist, histLeft, frame, dbVars,
                 nframes, crashed>>

\* NewClient returning the client although CreateActiveSession failed.
NewClientIgnoresError(s, ok) ==
  /\ ~crashed
  /\ pc[s] = "newclient"
  /\ rows' = IF ok THEN rows \cup {s} ELSE rows
  /\ stale' = IF ok THEN stale \ {s} ELSE stale
  /\ pc' = [pc EXCEPT ![s] = "register"]
  /\ UNCHANGED <<mgrVars, hubVars, hub, epoch, send, closed, wp, hist, histLeft,
                 frame, stored, nframes, crashed>>

\* ============================ NewClient ================================
\* ok: generateSessionID and CreateActiveSession succeed, the row is
\* inserted with last_seen = NOW(), and HandleWebSocket goes on to
\* hub.Register <- client.  Otherwise NewClient returns an error and
\* HandleWebSocket closes the connection and returns.
NewClient(s, ok) ==
  /\ ~crashed
  /\ pc[s] = "newclient"
  /\ rows' = IF ok THEN rows \cup {s} ELSE rows
  /\ stale' = IF ok THEN stale \ {s} ELSE stale
  /\ pc' = [pc EXCEPT ![s] = IF ok THEN "register" ELSE "failed"]
  /\ UNCHANGED <<mgrVars, hubVars, hub, epoch, send, closed, wp, hist, histLeft,
                 frame, stored, nframes, crashed>>

\* ============================== Hub ====================================
\* broadcastToAll putting the message at the head of each queue.
broadcastToAllAtHead(h, message) ==
  LET slow == {c \in clients[h] : Len(send[c]) >= QueueCap} IN
  IF \E c \in clients[h] : closed[c]
    THEN /\ crashed' = TRUE
         /\ UNCHANGED <<send, closed, clients, onlineUsers>>
    ELSE /\ send' = [c \in Sessions |->
                       IF c \in clients[h] \ slow
                         THEN <<message>> \o send[c] ELSE send[c]]
         /\ closed' = [c \in Sessions |-> closed[c] \/ c \in slow]
         /\ clients' = [clients EXCEPT ![h] = @ \ slow]
         /\ onlineUsers' = [onlineUsers EXCEPT
                              ![h] = @ \ {username[c] : c \in slow}]
         /\ UNCHANGED crashed

\* broadcastToAll that leaves out the client the Hub's current request
\* came from.
broadcastToAllExceptSender(h, message) ==
  LET slow == {c \in clients[h] : Len(send[c]) >= QueueCap} IN
  IF \E c \in clients[h] : closed[c]
    THEN /\ crashed' = TRUE
         /\ UNCHANGED <<send, closed, clients, onlineUsers>>
    ELSE /\ send' = [c \in Sessions |->
                       IF c \in (clients[h] \ slow) \ {ev[h].client}
                         THEN Append(send[c], message) ELSE send[c]]
         /\ closed' = [c \in Sessions |-> closed[c] \/ c \in slow]
         /\ clients' = [clients EXCEPT ![h] = @ \ slow]
         /\ onlineUsers' = [onlineUsers EXCEPT
                              ![h] = @ \ {username[c] : c \in slow}]
         /\ UNCHANGED crashed

\* broadcastToAll: a non-blocking send to every client; a client whose
\* buffer is full is closed and deleted from clients and onlineUsers.  A
\* send on a closed channel panics.
broadcastToAll(h, message) ==
  LET slow == {c \in clients[h] : Len(send[c]) >= QueueCap} IN
  IF \E c \in clients[h] : closed[c]
    THEN /\ crashed' = TRUE
         /\ UNCHANGED <<send, closed, clients, onlineUsers>>
    ELSE /\ send' = [c \in Sessions |->
                       IF c \in clients[h] \ slow
                         THEN Append(send[c], message) ELSE send[c]]
         /\ closed' = [c \in Sessions |-> closed[c] \/ c \in slow]
         /\ clients' = [clients EXCEPT ![h] = @ \ slow]
         /\ onlineUsers' = [onlineUsers EXCEPT
                              ![h] = @ \ {username[c] : c \in slow}]
         /\ UNCHANGED crashed

\* ShutdownHub as a blocking send h.shutdown <- true: it returns only when
\* Run receives the signal.
ShutdownHubBlocking(h, who) ==
  /\ run[h] = "select"
  /\ IF \E c \in clients[h] : closed[c]
       THEN /\ crashed' = TRUE
            /\ UNCHANGED <<run, closed, stoppedBy>>
       ELSE /\ closed' = [c \in Sessions |-> closed[c] \/ c \in clients[h]]
            /\ run' = [run EXCEPT ![h] = "stopped"]
            /\ stoppedBy' = [stoppedBy EXCEPT ![h] = who]
            /\ UNCHANGED crashed

\* ShutdownHub: a non-blocking send on h.shutdown.  It is received only if
\* Run is waiting in its select; Run then closes every client's send and
\* returns (closing a closed channel panics).  Otherwise the default case
\* runs and the signal is dropped.
ShutdownHub(h, who) ==
  IF run[h] = "select"
    THEN IF \E c \in clients[h] : closed[c]
           THEN /\ crashed' = TRUE
                /\ UNCHANGED <<run, closed, stoppedBy>>
           ELSE /\ closed' = [c \in Sessions |-> closed[c] \/ c \in clients[h]]
                /\ run' = [run EXCEPT ![h] = "stopped"]
                /\ stoppedBy' = [stoppedBy EXCEPT ![h] = who]
                /\ UNCHANGED crashed
    ELSE UNCHANGED <<run, closed, stoppedBy, crashed>>

\* case client := <-h.Register, with the handler's hub.Register <- client;
\* the handler goes on to start SendRecentMessages, WritePump and ReadPump.
RunRecvRegister(h, s) ==
  /\ ~crashed
  /\ run[h] = "select"
  /\ pc[s] = "register" /\ hub[s] = h
  /\ run' = [run EXCEPT ![h] = "recv"]
  /\ ev' = [ev EXCEPT ![h] = [kind |-> "register", client |-> s,
                              payload |-> NoPayload]]
  /\ pc' = [pc EXCEPT ![s] = "read"]
  /\ wp' = [wp EXCEPT ![s] = "run"]
  /\ hist' = [hist EXCEPT ![s] = "start"]
  /\ UNCHANGED <<mgrVars, hubRoom, clients, onlineUsers, idle, cleanup,
                 stoppedBy, hub, epoch, send, closed, histLeft, frame,
                 dbVars, nframes, crashed>>

\* The Register case with one clients map per room, shared by the Hubs
\* created for that room.
RunRegisterSharedMap(h) ==
  /\ ~crashed
  /\ run[h] = "recv" /\ ev[h].kind = "register"
  /\ clients' = [g \in HubIds |->
                   IF hubRoom[g] = hubRoom[h]
                     THEN clients[g] \cup {ev[h].client} ELSE clients[g]]
  /\ idle' = [idle EXCEPT ![h] = FALSE]
  /\ onlineUsers' = [onlineUsers EXCEPT
                       ![h] = @ \cup {username[ev[h].client]}]
  /\ run' = [run EXCEPT ![h] = "presence"]
  /\ UNCHANGED <<mgrVars, hubRoom, ev, cleanup, stoppedBy, cliVars, dbVars,
                 nframes, crashed>>

\* The Register case without h.clients[client] = true.
RunRegisterLost(h) ==
  /\ ~crashed
  /\ run[h] = "recv" /\ ev[h].kind = "register"
  /\ idle' = [idle EXCEPT ![h] = FALSE]
  /\ onlineUsers' = [onlineUsers EXCEPT
                       ![h] = @ \cup {username[ev[h].client]}]
  /\ run' = [run EXCEPT ![h] = "presence"]
  /\ UNCHANGED <<mgrVars, hubRoom, ev, clients, cleanup, stoppedBy, cliVars,
                 dbVars, nframes, crashed>>

\* h.clients[client] = true; h.lastActivity = time.Now();
\* h.onlineUsers[client.username] = true
RunRegister(h) ==
  /\ ~crashed
  /\ run[h] = "recv" /\ ev[h].kind = "register"
  /\ clients' = [clients EXCEPT ![h] = @ \cup {ev[h].client}]
  /\ idle' = [idle EXCEPT ![h] = FALSE]
  /\ onlineUsers' = [onlineUsers EXCEPT
                       ![h] = @ \cup {username[ev[h].client]}]
  /\ run' = [run EXCEPT ![h] = "presence"]
  /\ UNCHANGED <<mgrVars, hubRoom, ev, cleanup, stoppedBy, cliVars, dbVars,
                 nframes, crashed>>

\* case client := <-h.Unregister, with ReadPump's deferred
\* c.hub.Unregister <- c; ReadPump then closes the connection and returns.
RunRecvUnregister(h, s) ==
  /\ ~crashed
  /\ run[h] = "select"
  /\ pc[s] = "unregister" /\ hub[s] = h
  /\ run' = [run EXCEPT ![h] = "recv"]
  /\ ev' = [ev EXCEPT ![h] = [kind |-> "unregister", client |-> s,
                              payload |-> NoPayload]]
  /\ pc' = [pc EXCEPT ![s] = "done"]
  /\ UNCHANGED <<mgrVars, hubRoom, clients, onlineUsers, idle, cleanup,
                 stoppedBy, hub, epoch, send, closed, wp, hist, histLeft, frame,
                 dbVars, nframes, crashed>>

\* The Unregister case without the test of h.clients[client].
RunUnregisterUnchecked(h) ==
  /\ ~crashed
  /\ run[h] = "recv" /\ ev[h].kind = "unregister"
  /\ LET c == ev[h].client IN
       IF closed[c]
         THEN /\ crashed' = TRUE
              /\ UNCHANGED <<clients, closed, onlineUsers, run, ev>>
         ELSE /\ clients' = [clients EXCEPT ![h] = @ \ {c}]
              /\ closed' = [closed EXCEPT ![c] = TRUE]
              /\ onlineUsers' = [onlineUsers EXCEPT ![h] = @ \ {username[c]}]
              /\ run' = [run EXCEPT ![h] = "presence"]
              /\ UNCHANGED <<ev, crashed>>
  /\ UNCHANGED <<mgrVars, hubRoom, idle, cleanup, stoppedBy, pc, hub, epoch, send,
                 wp, hist, histLeft, frame, dbVars, nframes>>

\* if _, ok := h.clients[client]; ok { delete; close(client.send);
\* delete(h.onlineUsers, client.username); broadcastPresenceUpdate() }
RunUnregister(h) ==
  /\ ~crashed
  /\ run[h] = "recv" /\ ev[h].kind = "unregister"
  /\ LET c == ev[h].client IN
       IF c \in clients[h]
         THEN IF closed[c]
                THEN /\ crashed' = TRUE
                     /\ UNCHANGED <<clients, closed, onlineUsers, run, ev>>
                ELSE /\ clients' = [clients EXCEPT ![h] = @ \ {c}]
                     /\ closed' = [closed EXCEPT ![c] = TRUE]
                     /\ onlineUsers' = [onlineUsers EXCEPT
                                          ![h] = @ \ {username[c]}]
                     /\ run' = [run EXCEPT ![h] = "presence"]
                     /\ UNCHANGED <<ev, crashed>>
         ELSE /\ run' = [run EXCEPT ![h] = "select"]
              /\ ev' = [ev EXCEPT ![h] = NoEvent]
              /\ UNCHANGED <<clients, closed, onlineUsers, crashed>>
  /\ UNCHANGED <<mgrVars, hubRoom, idle, cleanup, stoppedBy, pc, hub, epoch, send,
                 wp, hist, histLeft, frame, dbVars, nframes>>

\* case message := <-h.Broadcast, with ReadPump's c.hub.Broadcast <- data
RunRecvBroadcast(h, s) ==
  /\ ~crashed
  /\ run[h] = "select"
  /\ pc[s] = "publish" /\ hub[s] = h
  /\ run' = [run EXCEPT ![h] = "recv"]
  /\ ev' = [ev EXCEPT ![h] = [kind |-> "broadcast", client |-> s,
                              payload |-> ChatMessage(s, frame[s])]]
  /\ pc' = [pc EXCEPT ![s] = "read"]
  /\ frame' = [frame EXCEPT ![s] = 0]
  /\ UNCHANGED <<mgrVars, hubRoom, clients, onlineUsers, idle, cleanup,
                 stoppedBy, hub, epoch, send, closed, wp, hist, histLeft, dbVars,
                 nframes, crashed>>

\* h.lastActivity = time.Now(); h.broadcastToAll(message)
RunBroadcast(h) ==
  /\ ~crashed
  /\ run[h] = "recv" /\ ev[h].kind = "broadcast"
  /\ idle' = [idle EXCEPT ![h] = FALSE]
  /\ broadcastToAll(h, ev[h].payload)
  /\ run' = [run EXCEPT ![h] = IF crashed' THEN @ ELSE "select"]
  /\ ev' = [ev EXCEPT ![h] = IF crashed' THEN @ ELSE NoEvent]
  /\ UNCHANGED <<mgrVars, hubRoom, cleanup, stoppedBy, pc, hub, epoch, wp,
                 hist, histLeft, frame, dbVars, nframes>>

\* GetActiveUsersInRoom: delete the rows not seen for 5 minutes, then select
\* the rows of the room.  Either statement may fail; a failed delete is
\* logged and the select still runs.
GetActiveUsersInRoom(r, purged) ==
  {s \in (IF purged THEN rows \ stale ELSE rows) : roomOf[s] = r}

\* broadcastPresenceUpdate going on with an empty list on a query error.
RunPresenceQueryEmptyOnError(h, purged, ok) ==
  /\ ~crashed
  /\ run[h] = "presence"
  /\ rows' = IF purged THEN rows \ stale ELSE rows
  /\ stale' = IF purged THEN {} ELSE stale
  /\ run' = [run EXCEPT ![h] = "fanout"]
  /\ ev' = [ev EXCEPT ![h].payload =
              IF ok THEN PresenceUpdate(GetActiveUsersInRoom(hubRoom[h], purged))
                    ELSE PresenceUpdate({})]
  /\ UNCHANGED <<mgrVars, hubRoom, clients, onlineUsers, idle, cleanup,
                 stoppedBy, cliVars, stored, nframes, crashed>>

\* broadcastPresenceUpdate, up to json.Marshal: on a query error (~ok) it
\* returns.
RunPresenceQuery(h, purged, ok) ==
  /\ ~crashed
  /\ run[h] = "presence"
  /\ rows' = IF purged THEN rows \ stale ELSE rows
  /\ stale' = IF purged THEN {} ELSE stale
  /\ IF ok
       THEN /\ run' = [run EXCEPT ![h] = "fanout"]
            /\ ev' = [ev EXCEPT ![h].payload =
                 PresenceUpdate(GetActiveUsersInRoom(hubRoom[h], purged))]
       ELSE /\ run' = [run EXCEPT ![h] = "select"]
            /\ ev' = [ev EXCEPT ![h] = NoEvent]
  /\ UNCHANGED <<mgrVars, hubRoom, clients, onlineUsers, idle, cleanup,
                 stoppedBy, cliVars, stored, nframes, crashed>>

\* broadcastPresenceUpdate: h.broadcastToAll(data)
RunPresenceFanout(h) ==
  /\ ~crashed
  /\ run[h] = "fanout"
  /\ broadcastToAll(h, ev[h].payload)
  /\ run' = [run EXCEPT ![h] = IF crashed' THEN @ ELSE "select"]
  /\ ev' = [ev EXCEPT ![h] = IF crashed' THEN @ ELSE NoEvent]
  /\ UNCHANGED <<mgrVars, hubRoom, idle, cleanup, stoppedBy, pc, hub, epoch, 
                 wp, hist, histLeft, frame, dbVars, nframes>>

\* ======================= Hub.StartCleanupRoutine =======================
\* 30 minutes pass without lastActivity being set, while Run waits in its
\* select.
TimePasses(h) ==
  /\ ~crashed
  /\ cleanup[h] = "tick"
  /\ run[h] = "select"
  /\ ~idle[h]
  /\ idle' = [idle EXCEPT ![h] = TRUE]
  /\ UNCHANGED <<mgrVars, hubRoom, run, ev, clients, onlineUsers, cleanup,
                 stoppedBy, cliVars, dbVars, nframes, crashed>>

\* A tick at which time.Since(h.lastActivity) > 30*time.Minute &&
\* len(h.clients) == 0 (both read without synchronisation); at any other
\* tick the loop goes on waiting.
CleanupTick(h) ==
  /\ ~crashed
  /\ cleanup[h] = "tick"
  /\ idle[h] /\ clients[h] = {}
  /\ cleanup' = [cleanup EXCEPT ![h] = "shutdown"]
  /\ UNCHANGED <<mgrVars, hubRoom, run, ev, clients, onlineUsers, idle,
                 stoppedBy, cliVars, dbVars, nframes, crashed>>

\* h.ShutdownHub(); return
CleanupShutdown(h) ==
  /\ ~crashed
  /\ cleanup[h] = "shutdown"
  /\ ShutdownHub(h, "timer")
  /\ cleanup' = [cleanup EXCEPT ![h] = "done"]
  /\ UNCHANGED <<mgrVars, hubRoom, ev, clients, onlineUsers, idle, pc, hub, epoch,
                 send, wp, hist, histLeft, frame, dbVars, nframes>>

\* ====================== Manager.cleanupUnusedHubs ======================
\* A tick: m.mutex.Lock(); the range loop reaches room r and finds
\* hub.GetOnlineUserCount() == 0 (len(h.onlineUsers), read without
\* synchronisation).  A tick that finds no such hub unlocks again and
\* changes nothing.
SweepVisit(r) ==
  /\ ~crashed
  /\ sweep = "tick"
  /\ mutex = "free"
  /\ r \in DOMAIN hubs
  /\ Cardinality(onlineUsers[hubs[r]]) = 0
  /\ mutex' = "sweep"
  /\ sweep' = "shutdown"
  /\ sweepRoom' = r
  /\ UNCHANGED <<hubs, nhubs, deleted, hubVars, cliVars, dbVars, nframes, crashed>>

\* hub.ShutdownHub(); delete(m.hubs, roomID); the loop ends (the model has
\* one room): m.mutex.Unlock()
SweepShutdown ==
  /\ ~crashed
  /\ sweep = "shutdown"
  /\ ShutdownHub(hubs[sweepRoom], "sweep")
  /\ hubs' = [r \in DOMAIN hubs \ {sweepRoom} |-> hubs[r]]
  /\ mutex' = "free"
  /\ sweep' = "tick"
  /\ sweepRoom' = ""
  /\ deleted' = deleted + 1
  /\ UNCHANGED <<nhubs, hubRoom, ev, clients, onlineUsers, idle, cleanup,
                 pc, hub, epoch, send, wp, hist, histLeft, frame, dbVars,
                 nframes>>

\* ========================== Client.ReadPump ============================
\* The loop body leaving the loop (break) when UpdateSessionActivity or
\* SaveMessage returns an error.
ReadFrameStopsOnError(s, touched, saved, limit) ==
  /\ ~crashed
  /\ pc[s] = "read"
  /\ ConnOpen(s)
  /\ nframes < limit
  /\ nframes' = nframes + 1
  /\ frame' = [frame EXCEPT ![s] = IF touched /\ saved THEN nframes + 1 ELSE @]
  /\ stale' = IF touched THEN stale \ {s} ELSE stale
  /\ stored' = IF saved THEN stored + 1 ELSE stored
  /\ pc' = [pc EXCEPT
              ![s] = IF touched /\ saved THEN "publish" ELSE "unregister"]
  /\ UNCHANGED <<mgrVars, hubVars, hub, epoch, send, closed, wp, hist, histLeft,
                 rows, crashed>>

\* c.conn.ReadMessage() returns a text frame; UpdateSessionActivity sets
\* last_seen = NOW() on the session's row, SaveMessage inserts a message
\* (an error of either is logged); c.hub.Broadcast <- data comes next.
\* limit: the number of frames the model lets the ReadPumps read.
ReadFrameUpTo(s, touched, saved, limit) ==
  /\ ~crashed
  /\ pc[s] = "read"
  /\ ConnOpen(s)
  /\ nframes < limit
  /\ nframes' = nframes + 1
  /\ frame' = [frame EXCEPT ![s] = nframes + 1]
  /\ stale' = IF touched THEN stale \ {s} ELSE stale
  /\ stored' = IF saved THEN stored + 1 ELSE stored
  /\ pc' = [pc EXCEPT ![s] = "publish"]
  /\ UNCHANGED <<mgrVars, hubVars, hub, epoch, send, closed, wp, hist, histLeft,
                 rows, crashed>>

ReadFrame(s, touched, saved) == ReadFrameUpTo(s, touched, saved, MaxFrames)

\* c.conn.ReadMessage() returns an error (the peer closed, the read
\* deadline passed, or WritePump closed the connection): break; the
\* deferred RemoveActiveSession deletes the row (an error is logged);
\* c.hub.Unregister <- c comes next.
ReadError(s, removed) ==
  /\ ~crashed
  /\ pc[s] = "read"
  /\ rows' = IF removed THEN rows \ {s} ELSE rows
  /\ stale' = IF removed THEN stale \ {s} ELSE stale
  /\ pc' = [pc EXCEPT ![s] = "unregister"]
  /\ UNCHANGED <<mgrVars, hubVars, hub, epoch, send, closed, wp, hist, histLeft,
                 frame, stored, nframes, crashed>>

\* 5 minutes pass without last_seen of the session's row being set, while
\* its ReadPump waits in ReadMessage.
RowAges(s) ==
  /\ ~crashed
  /\ s \in rows \ stale
  /\ pc[s] = "read"
  /\ stale' = stale \cup {s}
  /\ UNCHANGED <<mgrVars, hubVars, cliVars, rows, stored, nframes, crashed>>

\* ========================== Client.WritePump ===========================
\* case msg, ok := <-c.send with ok: WriteMessage(TextMessage, msg); on a
\* write error the pump returns and the deferred c.conn.Close() runs.
WriteMessage(s, ok) ==
  /\ ~crashed
  /\ wp[s] = "run"
  /\ send[s] # <<>>
  /\ send' = [send EXCEPT ![s] = Tail(@)]
  /\ ok => ConnOpen(s)
  /\ wp' = [wp EXCEPT ![s] = IF ok THEN "run" ELSE "done"]
  /\ UNCHANGED <<mgrVars, hubVars, pc, hub, epoch, closed, hist, histLeft, frame,
                 dbVars, nframes, crashed>>

\* The !ok branch taken as soon as the channel is closed, payloads still
\* buffered or not.
WriteCloseEarly(s) ==
  /\ ~crashed
  /\ wp[s] = "run"
  /\ closed[s]
  /\ wp' = [wp EXCEPT ![s] = "closed"]
  /\ UNCHANGED <<mgrVars, hubVars, pc, hub, epoch, send, closed, hist, histLeft,
                 frame, dbVars, nframes, crashed>>

\* case msg, ok := <-c.send with !ok (closed and drained):
\* WriteMessage(CloseMessage); return; c.conn.Close()
WriteClose(s) ==
  /\ ~crashed
  /\ wp[s] = "run"
  /\ send[s] = <<>> /\ closed[s]
  /\ wp' = [wp EXCEPT ![s] = "closed"]
  /\ UNCHANGED <<mgrVars, hubVars, pc, hub, epoch, send, closed, hist, histLeft,
                 frame, dbVars, nframes, crashed>>

\* case <-ticker.C: the ping cannot be written; return; c.conn.Close()
WritePingError(s) ==
  /\ ~crashed
  /\ wp[s] = "run"
  /\ wp' = [wp EXCEPT ![s] = "done"]
  /\ UNCHANGED <<mgrVars, hubVars, pc, hub, epoch, send, closed, hist, histLeft,
                 frame, dbVars, nframes, crashed>>

\* ====================== Client.SendRecentMessages ======================
\* One pass of the loop over msgs (not empty):
\* select { case c.send <- data: default: close(c.send); return }
\* A send on a closed channel panics.
HistEnqueue(s, msgs) ==
  IF closed[s]
    THEN /\ crashed' = TRUE
         /\ UNCHANGED <<send, closed, hist, histLeft>>
    ELSE IF Len(send[s]) < QueueCap
      THEN /\ send' = [send EXCEPT ![s] = Append(@, HistoryMessage(Head(msgs)))]
           /\ histLeft' = [histLeft EXCEPT ![s] = Tail(msgs)]
           /\ hist' = [hist EXCEPT
                         ![s] = IF Len(msgs) = 1 THEN "done" ELSE "send"]
           /\ UNCHANGED <<closed, crashed>>
      ELSE /\ closed' = [closed EXCEPT ![s] = TRUE]
           /\ hist' = [hist EXCEPT ![s] = "done"]
           /\ histLeft' = [histLeft EXCEPT ![s] = <<>>]
           /\ UNCHANGED <<send, crashed>>

\* c.db.LoadRecentMessages(ctx, c.roomID, 10) (on an error: return), and
\* the first pass of the loop.
HistStart(s, ok) ==
  /\ ~crashed
  /\ hist[s] = "start"
  /\ LET msgs == IF ok THEN LoadRecentMessages(HistoryLimit) ELSE <<>> IN
       IF msgs = <<>>
         THEN /\ hist' = [hist EXCEPT ![s] = "done"]
              /\ UNCHANGED <<send, closed, histLeft, crashed>>
         ELSE HistEnqueue(s, msgs)
  /\ UNCHANGED <<mgrVars, hubVars, pc, hub, epoch, wp, frame, dbVars, nframes>>

\* a later pass of the loop
HistSend(s) ==
  /\ ~crashed
  /\ hist[s] = "send"
  /\ HistEnqueue(s, histLeft[s])
  /\ UNCHANGED <<mgrVars, hubVars, pc, hub, epoch, wp, frame, dbVars, nframes>>

\* ============================ the system ===============================
\* Every goroutine, every outcome of the database and of the connection.
Next ==
  \/ \E s \in Sessions :
       \/ GetHubLock(s) \/ GetHubLookup(s) \/ GetHubCreate(s)
       \/ \E ok \in BOOLEAN : NewClient(s, ok)
       \/ \E touched \in BOOLEAN, saved \in BOOLEAN :
            ReadFrame(s, touched, saved)
       \/ \E removed \in BOOLEAN : ReadError(s, removed)
       \/ RowAges(s)
       \/ \E ok \in BOOLEAN : WriteMessage(s, ok)
       \/ WriteClose(s) \/ WritePingError(s)
       \/ \E ok \in BOOLEAN : HistStart(s, ok)
       \/ HistSend(s)
  \/ \E h \in HubIds :
       \/ \E s \in Sessions :
            \/ RunRecvRegister(h, s) \/ RunRecvUnregister(h, s)
            \/ RunRecvBroadcast(h, s)
       \/ RunRegister(h) \/ RunUnregister(h) \/ RunBroadcast(h)
       \/ \E purged \in BOOLEAN, ok \in BOOLEAN :
            RunPresenceQuery(h, purged, ok)
       \/ RunPresenceFanout(h)
       \/ TimePasses(h) \/ CleanupTick(h) \/ CleanupShutdown(h)
  \/ \E r \in Rooms : SweepVisit(r)
  \/ SweepShutdown

Spec == Init /\ [][Next]_vars

\* One room's Hub and its sessions: the Manager creates the Hub, the
\* handlers, the Hub's loop, the pumps and the history replay run; the
\* database and the connection do not fail, and no idle timer or sweep
\* fires.
NextHub ==
  \/ \E s \in Sessions :
       \/ GetHubLock(s) \/ GetHubLookup(s) \/ GetHubCreate(s)
       \/ NewClient(s, TRUE)
       \/ ReadFrame(s, TRUE, TRUE)
       \/ ReadError(s, TRUE)
       \/ WriteMessage(s, TRUE)
       \/ WriteClose(s)
       \/ HistStart(s, TRUE)
       \/ HistSend(s)
  \/ \E h \in HubIds :
       \/ \E s \in Sessions :
            \/ RunRecvRegister(h, s) \/ RunRecvUnregister(h, s)
            \/ RunRecvBroadcast(h, s)
       \/ RunRegister(h) \/ RunUnregister(h) \/ RunBroadcast(h)
       \/ RunPresenceQuery(h, TRUE, TRUE)
       \/ RunPresenceFanout(h)

SpecHub == Init /\ [][NextHub]_vars

\* The life of the Hubs of one room: the Manager's registry and sweep, the
\* Hubs' idle timers, and the sessions' admission, frames and removal.
NextLife ==
  \/ \E s \in Sessions :
       \/ GetHubLock(s) \/ GetHubLookup(s) \/ GetHubCreate(s)
       \/ NewClient(s, TRUE)
       \/ ReadFrame(s, TRUE, TRUE)
       \/ ReadError(s, TRUE)
  \/ \E h \in HubIds :
       \/ \E s \in Sessions :
            \/ RunRecvRegister(h, s) \/ RunRecvUnregister(h, s)
            \/ RunRecvBroadcast(h, s)
       \/ RunRegister(h) \/ RunUnregister(h) \/ RunBroadcast(h)
       \/ RunPresenceQuery(h, TRUE, TRUE)
       \/ RunPresenceFanout(h)
       \/ TimePasses(h) \/ CleanupTick(h) \/ CleanupShutdown(h)
  \/ \E r \in Rooms : SweepVisit(r)
  \/ SweepShutdown

SpecLife == Init /\ [][NextLife]_vars

\* Presence: the sessions' rows in active_sessions against the Hub's
\* membership.  NewClient may fail, rows grow stale while a session only
\* listens, the purge in GetActiveUsersInRoom succeeds.
NextPresence ==
  \/ \E s \in Sessions :
       \/ GetHubLock(s) \/ GetHubLookup(s) \/ GetHubCreate(s)
       \/ \E ok \in BOOLEAN : NewClient(s, ok)
       \/ ReadFrame(s, TRUE, TRUE)
       \/ ReadError(s, TRUE)
       \/ RowAges(s)
  \/ \E h \in HubIds :
       \/ \E s \in Sessions :
            \/ RunRecvRegister(h, s) \/ RunRecvUnregister(h, s)
            \/ RunRecvBroadcast(h, s)
       \/ RunRegister(h) \/ RunUnregister(h) \/ RunBroadcast(h)
       \/ RunPresenceQuery(h, TRUE, TRUE)
       \/ RunPresenceFanout(h)

SpecPresence == Init /\ [][NextPresence]_vars

\* Shutdown requests: sessions are admitted while the Hubs' idle timers and
\* the Manager's sweep run.  The goroutines of the program are scheduled
\* fairly: a step of Run, of GetHubForRoom, of the sweep or of an idle timer
\* that stays possible is taken, and so is a channel operation both sides
\* wait for.  The passing of time is not forced.
NextShutdown ==
  \/ \E s \in Sessions :
       \/ GetHubLock(s) \/ GetHubLookup(s) \/ GetHubCreate(s)
       \/ NewClient(s, TRUE)
  \/ \E h \in HubIds :
       \/ \E s \in Sessions : RunRecvRegister(h, s)
       \/ RunRegister(h)
       \/ RunPresenceQuery(h, TRUE, TRUE)
       \/ RunPresenceFanout(h)
       \/ TimePasses(h) \/ CleanupTick(h) \/ CleanupShutdown(h)
  \/ \E r \in Rooms : SweepVisit(r)
  \/ SweepShutdown

FairShutdown ==
  /\ \A s \in Sessions :
       /\ WF_vars(GetHubLock(s) \/ GetHubLookup(s) \/ GetHubCreate(s))
       /\ WF_vars(NewClient(s, TRUE))
  /\ \A h \in HubIds :
       /\ WF_vars(\E s \in Sessions : RunRecvRegister(h, s))
       /\ WF_vars(RunRegister(h))
       /\ WF_vars(RunPresenceQuery(h, TRUE, TRUE))
       /\ WF_vars(RunPresenceFanout(h))
       /\ WF_vars(CleanupTick(h))
       /\ WF_vars(CleanupShutdown(h))
  /\ WF_vars(\E r \in Rooms : SweepVisit(r))
  /\ WF_vars(SweepShutdown)

SpecShutdown == Init /\ [][NextShutdown]_vars /\ FairShutdown

\* The order of delivery: sessions are admitted and publish frames, the Hub
\* fans out, the WritePumps drain the queues.  No history replay, and no
\* session leaves: every broadcast then is a payload of its own (a chat
\* message carries its frame, the snapshots of the admits grow), so that a
\* payload on a queue identifies the broadcast.
NextOrder ==
  \/ \E s \in Sessions :
       \/ GetHubLock(s) \/ GetHubLookup(s) \/ GetHubCreate(s)
       \/ NewClient(s, TRUE)
       \/ ReadFrameUpTo(s, TRUE, TRUE, MaxFramesOrder)
       \/ WriteMessage(s, TRUE)
  \/ \E h \in HubIds :
       \/ \E s \in Sessions :
            \/ RunRecvRegister(h, s) \/ RunRecvBroadcast(h, s)
       \/ RunRegister(h) \/ RunBroadcast(h)
       \/ RunPresenceQuery(h, TRUE, TRUE)
       \/ RunPresenceFanout(h)

SpecOrder == Init /\ [][NextOrder]_vars

\* Persistence failures: every call of the database made by ReadPump and by
\* broadcastPresenceUpdate may fail (CreateActiveSession succeeds); rows
\* grow stale; no WritePump and no history replay run.
NextFaults ==
  \/ \E s \in Sessions :
       \/ GetHubLock(s) \/ GetHubLookup(s) \/ GetHubCreate(s)
       \/ NewClient(s, TRUE)
       \/ \E touched \in BOOLEAN, saved \in BOOLEAN :
            ReadFrame(s, touched, saved)
       \/ \E removed \in BOOLEAN : ReadError(s, removed)
       \/ RowAges(s)
  \/ \E h \in HubIds :
       \/ \E s \in Sessions :
            \/ RunRecvRegister(h, s) \/ RunRecvUnregister(h, s)
            \/ RunRecvBroadcast(h, s)
       \/ RunRegister(h) \/ RunUnregister(h) \/ RunBroadcast(h)
       \/ \E purged \in BOOLEAN, ok \in BOOLEAN :
            RunPresenceQuery(h, purged, ok)
       \/ RunPresenceFanout(h)

SpecFaults == Init /\ [][NextFaults]_vars

\* The pumps of the sessions of one room: sessions are admitted and leave,
\* the Hub fans out the presence updates and evicts a session whose queue
\* is full, the idle timer may shut the Hub down, the WritePumps drain the
\* queues and a write may fail.  No frame is published, no history is
\* replayed and the database does not fail.  The goroutines are scheduled fairly: a step of Run, of a
\* handler, of the timer's goroutine or of a WritePump that stays possible
\* is taken, and ReadMessage returns its error once the connection is
\* closed.  The passing of time, a peer leaving and a failing write are not
\* forced.
NextPump ==
  \/ \E s \in Sessions :
       \/ GetHubLock(s) \/ GetHubLookup(s) \/ GetHubCreate(s)
       \/ NewClient(s, TRUE)
       \/ ReadError(s, TRUE)
       \/ \E ok \in BOOLEAN : WriteMessage(s, ok)
       \/ WriteClose(s)
       \/ WritePingError(s)
  \/ \E h \in HubIds :
       \/ \E s \in Sessions : RunRecvRegister(h, s) \/ RunRecvUnregister(h, s)
       \/ RunRegister(h) \/ RunUnregister(h)
       \/ RunPresenceQuery(h, TRUE, TRUE)
       \/ RunPresenceFanout(h)
       \/ TimePasses(h) \/ CleanupTick(h) \/ CleanupShutdown(h)

FairPump ==
  /\ \A s \in Sessions :
       /\ WF_vars(GetHubLock(s) \/ GetHubLookup(s) \/ GetHubCreate(s))
       /\ WF_vars(NewClient(s, TRUE))
       /\ WF_vars(~ConnOpen(s) /\ ReadError(s, TRUE))
       /\ WF_vars(\E ok \in BOOLEAN : WriteMessage(s, ok))
       /\ WF_vars(WriteClose(s))
  /\ \A h \in HubIds :
       /\ WF_vars(\E s \in Sessions : RunRecvRegister(h, s))
       /\ WF_vars(\E s \in Sessions : RunRecvUnregister(h, s))
       /\ WF_vars(RunRegister(h))
       /\ WF_vars(RunUnregister(h))
       /\ WF_vars(RunPresenceQuery(h, TRUE, TRUE))
       /\ WF_vars(RunPresenceFanout(h))
       /\ WF_vars(CleanupTick(h))
       /\ WF_vars(CleanupShutdown(h))

SpecPump == Init /\ [][NextPump]_vars /\ FairPump

\* Eviction: sessions are admitted, publish frames and leave, the Hub fans
\* out and evicts a session whose queue is full, the WritePumps drain the
\* queues; no history is replayed, and neither the database nor a write
\* fails.  The goroutines are scheduled fairly: a step of Run, of a handler
\* that has entered GetHubForRoom, or of a WritePump that stays possible is
\* taken, a send on a channel of the Hub is received, and ReadMessage
\* returns its error once the connection is closed.  A new connection, a
\* frame from a peer and a peer leaving are not forced.
NextEvict ==
  \/ \E s \in Sessions :
       \/ GetHubLock(s) \/ GetHubLookup(s) \/ GetHubCreate(s)
       \/ NewClient(s, TRUE)
       \/ ReadFrame(s, TRUE, TRUE)
       \/ ReadError(s, TRUE)
       \/ WriteMessage(s, TRUE)
       \/ WriteClose(s)
  \/ \E h \in HubIds :
       \/ \E s \in Sessions :
            \/ RunRecvRegister(h, s) \/ RunRecvUnregister(h, s)
            \/ RunRecvBroadcast(h, s)
       \/ RunRegister(h) \/ RunUnregister(h) \/ RunBroadcast(h)
       \/ RunPresenceQuery(h, TRUE, TRUE)
       \/ RunPresenceFanout(h)

FairEvict ==
  /\ \A s \in Sessions :
       /\ WF_vars(GetHubLookup(s) \/ GetHubCreate(s))
       /\ WF_vars(NewClient(s, TRUE))
       /\ WF_vars(~ConnOpen(s) /\ ReadError(s, TRUE))
       /\ WF_vars(WriteMessage(s, TRUE))
       /\ WF_vars(WriteClose(s))
  /\ \A h \in HubIds :
       /\ WF_vars(\E s \in Sessions : RunRecvRegister(h, s))
       /\ WF_vars(\E s \in Sessions : RunRecvUnregister(h, s))
       /\ WF_vars(\E s \in Sessions : RunRecvBroadcast(h, s))
       /\ WF_vars(RunRegister(h))
       /\ WF_vars(RunUnregister(h))
       /\ WF_vars(RunBroadcast(h))
       /\ WF_vars(RunPresenceQuery(h, TRUE, TRUE))
       /\ WF_vars(RunPresenceFanout(h))

SpecEvict == Init /\ [][NextEvict]_vars /\ FairEvict

\* ============================= the claims ==============================
Live(h) == run[h] \notin {"none", "stopped"}
Full(c) == Len(send[c]) >= QueueCap

\* C1: when Run processes a Publish while no admitted session's queue is
\* full, the payload is appended exactly once to the queue of every session
\* in clients at that instant, and no other session's queue changes.
C1_PublishReachesMembers ==
  [][\A h \in HubIds :
       (RunBroadcast(h) /\ \A c \in clients[h] : ~Full(c))
         => \A s \in Sessions :
              send'[s] = IF s \in clients[h]
                           THEN Append(send[s], ev[h].payload)
                           ELSE send[s]]_vars

\* C2: when Run processes a broadcast (a chat message or a presence update)
\* and an admitted session's queue is full, that session is deleted from
\* clients and its queue is closed and left as it was; a session evicted
\* earlier gets nothing from the fan-out either.
C2_SlowSessionEvicted ==
  [][\A h \in HubIds :
       (RunBroadcast(h) \/ RunPresenceFanout(h))
         => /\ \A c \in clients[h] :
                 Full(c) => /\ c \notin clients'[h]
                            /\ closed'[c]
                            /\ send'[c] = send[c]
            /\ \A c \in Sessions \ clients[h] : send'[c] = send[c]]_vars

\* C3: an entry is deleted from Manager.hubs only at a moment when the
\* clients of its Hub are empty.
C3_DeletedOnlyWhenEmpty ==
  [][\A r \in DOMAIN hubs :
       r \notin DOMAIN hubs' => clients[hubs[r]] = {}]_vars

\* C4: no two Hubs of one room have a running control loop at the same
\* time.
C4_OneLiveHubPerRoom ==
  \A g, h \in HubIds :
    (g # h /\ Live(g) /\ Live(h)) => hubRoom[g] # hubRoom[h]

\* C5: two calls of GetHubForRoom for one room with no delete(m.hubs, ...)
\* between their returns return the same Hub, and every Hub ever created is
\* the registry's entry or was deleted from the registry by a sweep (one
\* Hub per room between two sweeps).
C5_SameHubOneCreated ==
  /\ \A s, t \in Sessions :
       (hub[s] # 0 /\ hub[t] # 0 /\ epoch[s] = epoch[t]) => hub[s] = hub[t]
  /\ nhubs = deleted + Cardinality(DOMAIN hubs)

\* Two handlers are between GetHubForRoom and Register at the same time and
\* hold the same Hub.
C5_Witness ==
  \E s, t \in Sessions :
    /\ s # t
    /\ pc[s] = "newclient" /\ pc[t] = "newclient"
    /\ hub[s] = hub[t] /\ hub[s] # 0 /\ epoch[s] = epoch[t]

\* C6: a handler is never left at hub.Register <- client on a Hub whose
\* Run has returned (nothing receives from that channel any more).
C6_RegisterNotOnStoppedHub ==
  \A s \in Sessions : pc[s] = "register" => run[hub[s]] # "stopped"

\* C7: when a call of GetHubForRoom enters (it takes the mutex), the
\* registry holds no Hub for its room whose control loop has stopped: a Hub
\* that stopped itself is gone from the registry at the next lookup, which
\* creates a fresh Hub.
C7_LookupFindsNoStoppedHub ==
  [][\A s \in Sessions :
       (pc[s] = "start" /\ pc'[s] = "lookup" /\ roomOf[s] \in DOMAIN hubs)
         => run[hubs[roomOf[s]]] # "stopped"]_vars

\* C8: no goroutine panics: no queue is closed twice and nothing is sent on
\* a closed queue.
C8_NoPanic == crashed = FALSE

\* C9: a ReadPump that has left its read loop is never left at
\* c.hub.Unregister <- c on a Hub whose Run has returned.
C9_CleanupNotBlocked ==
  \A s \in Sessions : pc[s] = "unregister" => run[hub[s]] # "stopped"

\* C10: the presence snapshot Run is about to fan out for an admit lists
\* the admitted session's user, and the one for a remove does not list the
\* removed session's user.
C10_SnapshotMatchesEvent ==
  \A h \in HubIds :
    run[h] = "fanout" =>
      /\ ev[h].kind = "register" =>
           username[ev[h].client] \in ListedUsers(ev[h].payload)
      /\ ev[h].kind = "unregister" =>
           username[ev[h].client] \notin ListedUsers(ev[h].payload)

\* C11: when the Hub has computed a presence snapshot for some session's
\* admit or remove, every other session that is in its clients, whose
\* ReadPump is in its read loop and whose queue is open, has its row in
\* active_sessions and is listed in the snapshot (also when it has sent
\* nothing for more than 5 minutes).
C11_MemberHasRow ==
  \A h \in HubIds :
    run[h] = "fanout" =>
      \A s \in clients[h] \ {ev[h].client} :
        (pc[s] = "read" /\ ~closed[s])
          => s \in rows /\ s \in ev[h].payload.active

\* C12: NewClient leaves the handler at hub.Register <- client exactly when
\* it inserted the session's row, and otherwise at the failure return;
\* nothing else leads to Register; after the failure return the connection
\* is closed, no pump or history replay is started and no Hub ever receives
\* or holds the session.
C12_NoRowNoSession ==
  [][\A s \in Sessions :
       /\ (pc[s] = "newclient" /\ pc'[s] # "newclient")
            => /\ pc'[s] = "register" <=> s \in rows'
               /\ pc'[s] = "failed" <=> s \notin rows'
       /\ pc'[s] = "register" => pc[s] \in {"newclient", "register"}
       /\ pc[s] = "failed"
            => /\ pc'[s] = "failed"
               /\ ~ConnOpen(s)'
               /\ wp'[s] = "none" /\ hist'[s] = "none"
               /\ \A h \in HubIds : s \notin clients'[h] /\ ev'[h].client # s
    ]_vars

\* A session's construction failed while the other session was admitted.
C12_Witness ==
  \E s, t \in Sessions : \E h \in HubIds :
    pc[s] = "failed" /\ s \notin rows /\ t \in clients[h] /\ t \in rows

\* C13: the Hub's clients follow the delivered admits and removes as a
\* plain set does: processing an admit inserts the session, processing a
\* remove deletes it, and as long as no queue overflows (no member's queue
\* is full at a fan-out, none was closed by a full history replay) no other
\* step changes clients.
C13_MembershipIsPlainSet ==
  [][\A h \in HubIds :
       (\A c \in clients[h] : ~closed[c]) =>
         /\ RunRegister(h) => clients'[h] = clients[h] \cup {ev[h].client}
         /\ RunUnregister(h) => clients'[h] = clients[h] \ {ev[h].client}
         /\ (~RunRegister(h) /\ ~RunUnregister(h)
               /\ \A c \in clients[h] : ~Full(c))
              => clients'[h] = clients[h]
    ]_vars

\* Two sessions were admitted and the Hub has processed the remove of one.
C13_Witness ==
  \E h \in HubIds :
    /\ run[h] = "presence" /\ ev[h].kind = "unregister"
    /\ ev[h].client \notin clients[h]
    /\ clients[h] # {}

\* C14: processing a Remove for a session that is not in clients changes
\* neither clients nor onlineUsers nor any queue, closes nothing, panics
\* not, and goes back to the select without a presence broadcast.
C14_RemoveIdempotent ==
  [][\A h \in HubIds :
       (RunUnregister(h) /\ ev[h].client \notin clients[h])
         => /\ UNCHANGED <<clients, onlineUsers, send, closed, crashed>>
            /\ run'[h] = "select"
    ]_vars

\* The Hub has received the Remove of a session it evicted as a slow
\* consumer before.
C14_Witness ==
  \E h \in HubIds :
    /\ run[h] = "recv" /\ ev[h].kind = "unregister"
    /\ ev[h].client \notin clients[h]
    /\ closed[ev[h].client]
    /\ pc[ev[h].client] = "done"

\* ShutdownHub has been called on Hub h: its idle timer has made its call,
\* or the sweep has (it deletes the registry entry right after its call).
ShutdownCalled(h) ==
  /\ run[h] # "none"
  /\ \/ cleanup[h] = "done"
     \/ hubRoom[h] \notin DOMAIN hubs
     \/ hubs[hubRoom[h]] # h

\* C15: once ShutdownHub has been called on a Hub, the Hub's control loop
\* eventually exits, with the queue of every admitted session closed.
C15_ShutdownEventuallyStops ==
  \A h \in HubIds :
    ShutdownCalled(h)
      ~> (run[h] = "stopped" /\ \A c \in clients[h] : closed[c])

\* C16: a ShutdownHub call of the idle timer or of the sweep never blocks
\* (the sweep, holding the mutex, and the timer can always take their
\* step); a call on a Hub whose Run has already returned changes nothing:
\* no queue is closed again, nothing panics and the Hub stays as the first
\* request left it.
C16_SecondShutdownNoEffect ==
  [][\A h \in HubIds :
       /\ cleanup[h] = "shutdown" => ENABLED CleanupShutdown(h)
       /\ sweep = "shutdown" => ENABLED SweepShutdown
       /\ (/\ run[h] = "stopped"
           /\ CleanupShutdown(h) \/ (SweepShutdown /\ hubs[sweepRoom] = h))
            => UNCHANGED <<run, stoppedBy, closed, clients, send, crashed>>
    ]_vars

\* The idle timer stopped a Hub that never had Run busy (no session handed
\* it anything), so the sweep's ShutdownHub, made before it deleted the
\* entry, found Run already returned; the sweep has released the mutex.
C16_Witness ==
  \E h \in HubIds :
    /\ run[h] = "stopped" /\ stoppedBy[h] = "timer"
    /\ hubRoom[h] \notin DOMAIN hubs \/ hubs[hubRoom[h]] # h
    /\ \A s \in Sessions : hub[s] = h => pc[s] \in {"newclient", "register"}
    /\ sweep = "tick" /\ mutex # "sweep"

\* A history event of SendRecentMessages, as against a Hub broadcast.
IsHistory(m) == m.type = "message" /\ m.sender = "system"

\* C17: on every session's queue the history events stand oldest first and
\* before every Hub broadcast (chat message or presence update).
C17_HistoryBeforeBroadcasts ==
  \A s \in Sessions : \A i, j \in DOMAIN send[s] :
    (i < j /\ IsHistory(send[s][j]))
      => IsHistory(send[s][i]) /\ send[s][i].text < send[s][j].text

\* C18: a pass of the history replay that finds the session's queue full or
\* closed changes neither the queue's contents nor its open/closed state
\* nor any Hub's clients, and does not panic.
C18_ReplayStopsWithoutEffect ==
  [][\A s \in Sessions :
       ((HistStart(s, TRUE) \/ HistSend(s)) /\ (Full(s) \/ closed[s]))
         => UNCHANGED <<send, closed, clients, crashed>>
    ]_vars

\* The scenario of C19: user A (s1) and user B (s3) join the room and stay
\* connected.
Connected(s) == pc[s] \in {"read", "publish"}
ScenarioAB == pc["s3"] # "absent"

C20_SameOrderEverywhere ==
  /\ \A c, d \in Sessions :
       \A i, j \in DOMAIN send[c] : \A k, l \in DOMAIN send[d] :
         (/\ c # d
          /\ i < j /\ k < l
          /\ ~IsHistory(send[c][i]) /\ ~IsHistory(send[c][j])
          /\ send[c][i] # send[c][j])
           => ~(send[c][i] = send[d][l] /\ send[c][j] = send[d][k])
  /\ ScenarioAB =>
       \A c \in Sessions : \A i, j \in DOMAIN send[c] :
         (/\ i < j
          /\ send[c][i].type = "message" /\ send[c][j].type = "message"
          /\ ~IsHistory(send[c][i]) /\ ~IsHistory(send[c][j])
          /\ send[c][i].sender = send[c][j].sender)
           => send[c][i].text < send[c][j].text

\* Two sessions hold the same two chat messages of one publisher, in the
\* order of publication.
C20_Witness ==
  /\ ScenarioAB
  /\ send["s1"] = send["s3"]
  /\ Len(send["s1"]) = 2
  /\ send["s1"][1].type = "message" /\ send["s1"][2].type = "message"
  /\ send["s1"][1].sender = send["s1"][2].sender
  /\ send["s1"][1].text < send["s1"][2].text

\* C21: no session is in the clients of two Hubs.
C21_OneHubPerSession ==
  \A s \in Sessions : \A g, h \in HubIds :
    (s \in clients[g] /\ s \in clients[h]) => g = h

\* Two Hubs of the room have members at the same time.
C21_Witness ==
  \E g, h \in HubIds :
    g # h /\ hubRoom[g] = hubRoom[h] /\ clients[g] # {} /\ clients[h] # {}

\* C22: when Run fans out a broadcast while some member's queue is full, the
\* step completes without a panic, every member whose queue has free space
\* gets the payload appended in that step, and Run is back at its select.
C22_FullQueueNeverStalls ==
  [][\A h \in HubIds :
       ((RunBroadcast(h) \/ RunPresenceFanout(h))
          /\ \E c \in clients[h] : Full(c))
         => /\ ~crashed'
            /\ run'[h] = "select"
            /\ \A d \in clients[h] :
                 ~Full(d) => send'[d] = Append(send[d], ev[h].payload)
    ]_vars

\* C23: when the Hub computes and when it fans out the presence snapshot of
\* an admit, the admitted session is in clients, and the fan-out appends the
\* snapshot to the queue of every member with free space, the admitted
\* session included; for the snapshot of a remove the removed session is
\* not in clients and its queue gets nothing.
C23_SnapshotAfterChange ==
  [][\A h \in HubIds :
       /\ (RunPresenceQuery(h, TRUE, TRUE) \/ RunPresenceFanout(h))
            => /\ ev[h].kind = "register" => ev[h].client \in clients[h]
               /\ ev[h].kind = "unregister" => ev[h].client \notin clients[h]
       /\ (RunPresenceFanout(h) /\ ev[h].kind = "register")
            => \A c \in clients[h] :
                 ~Full(c) => send'[c] = Append(send[c], ev[h].payload)
       /\ (RunPresenceFanout(h) /\ ev[h].kind = "unregister")
            => send'[ev[h].client] = send[ev[h].client]
    ]_vars

C25_QueryFailureSkipsPresence ==
  [][\A h \in HubIds :
       (\E purged \in BOOLEAN : RunPresenceQuery(h, purged, FALSE))
         => /\ ev[h].kind = "register" => ev[h].client \in clients[h]
            /\ ev[h].kind = "unregister" => ev[h].client \notin clients[h]
            /\ UNCHANGED <<send, closed, clients, crashed>>
            /\ run'[h] = "select"
    ]_vars

\* A session is admitted, its queue is empty and Run is at its select: the
\* presence update of its admit was skipped.
C25_Witness ==
  \E h \in HubIds : \E s \in clients[h] :
    /\ run[h] = "select"
    /\ send[s] = <<>> /\ ~closed[s]
    /\ pc[s] = "read"

\* C26: once a session's queue is closed while its WritePump runs, the pump
\* eventually sends the close frame and terminates.
C26_ClosedQueueGetsCloseFrame ==
  \A s \in Sessions : (closed[s] /\ wp[s] = "run") ~> (wp[s] = "closed")

\* C26, amended: on a closed queue the WritePump takes the payloads from
\* the head of the queue, one by one; it sends the close frame only when
\* the queue is empty; once it has returned, after the close frame or after
\* a failed write, it stays returned and the queue is left alone; and it
\* eventually returns.
C26_ClosedQueueAmended ==
  /\ [][\A s \in Sessions :
          closed[s] =>
            /\ (wp'[s] = "closed" /\ wp[s] # "closed")
                 => (wp[s] = "run" /\ send[s] = <<>>)
            /\ send'[s] # send[s]
                 => (wp[s] = "run" /\ send'[s] = Tail(send[s]))
            /\ wp[s] \in {"done", "closed"} => wp'[s] = wp[s]
       ]_vars
  /\ \A s \in Sessions :
       (closed[s] /\ wp[s] = "run") ~> (wp[s] \in {"done", "closed"})

\* A session evicted with a full queue (its ReadPump still reads): its
\* WritePump has written the queued payloads and sent the close frame.
C26_Witness ==
  \E s \in Sessions :
    /\ wp[s] = "closed" /\ closed[s] /\ send[s] = <<>>
    /\ pc[s] = "read"
    /\ hub[s] \in HubIds /\ s \notin clients[hub[s]]
    /\ run[hub[s]] # "stopped"

\* C27: each admit, each remove of a member and each publish the Hub
\* processes restarts the idle period of the Hub's timer: after it, the
\* threshold has not passed since the last activity.
C27_EveryEventRestartsIdle ==
  [][\A h \in HubIds :
       \/ RunRegister(h)
       \/ RunBroadcast(h)
       \/ (RunUnregister(h) /\ ev[h].client \in clients[h])
       => ~idle'[h]
    ]_vars

\* C28: a shutdown signal of the idle timer or of the sweep stops Run only
\* while h.clients is empty, and closes no session's queue.
C28_ShutdownOnlyWhenEmpty ==
  [][\A h \in HubIds :
       (run[h] # "stopped" /\ run'[h] = "stopped")
         => /\ clients[h] = {}
            /\ closed' = closed
    ]_vars

\* Hub h was deleted from Manager.hubs by a sweep.
Swept(h) ==
  /\ run[h] # "none"
  /\ \/ hubRoom[h] \notin DOMAIN hubs
     \/ hubs[hubRoom[h]] # h

\* C29: a Hub with no member has GetOnlineUserCount() = 0, so that a sweep
\* that meets it deletes it; and the control loop of every Hub a sweep
\* deleted eventually exits.
C29_SweptHubStops ==
  /\ [](\A h \in HubIds : clients[h] = {} => Cardinality(onlineUsers[h]) = 0)
  /\ \A h \in HubIds : Swept(h) ~> (run[h] = "stopped")

\* C30: a session that is admitted to a running Hub and whose WritePump has
\* returned on a write error eventually has its ReadPump returned, its row
\* deleted and is out of the Hub's clients.
C30_DeadWritePumpLeaves ==
  \A s \in Sessions :
    (/\ wp[s] = "done"
     /\ hub[s] \in HubIds /\ Live(hub[s])
     /\ s \in clients[hub[s]])
      ~> (/\ pc[s] = "done"
          /\ s \notin rows
          /\ s \notin clients[hub[s]])

\* Session s was evicted by broadcastToAll: its queue is closed and it is
\* out of its Hub's clients while its ReadPump is still in its loop, and
\* other sessions are members.
Evicted(s) ==
  /\ hub[s] \in HubIds /\ Live(hub[s])
  /\ closed[s] /\ s \notin clients[hub[s]]
  /\ pc[s] \in {"read", "publish"}
  /\ clients[hub[s]] # {}

\* C31: after a session is evicted, the Hub eventually fans out to the
\* remaining members a presence update that no longer lists the evicted
\* session (or no member remains).
C31_EvictionFollowedBySnapshot ==
  \A s \in Sessions :
    Evicted(s)
      ~> /\ hub[s] \in HubIds
         /\ \/ /\ run[hub[s]] = "fanout"
               /\ s \notin ev[hub[s]].payload.active
            \/ clients[hub[s]] = {}

\* C32: h.onlineUsers is the set of the usernames of the sessions in
\* h.clients; so GetOnlineUserCount() is 0 exactly when h.clients is empty.
C32_OnlineUsersMatchClients ==
  \A h \in HubIds :
    /\ onlineUsers[h] = {username[c] : c \in clients[h]}
    /\ Cardinality(onlineUsers[h]) = 0 <=> clients[h] = {}

====
